---- MODULE Spec2Model ----
(***************************************************************************)
(* Model of the trading-decision and position-lifecycle code of            *)
(* polymarket-ai-trading.                                                  *)
(*                                                                         *)
(* Two programs of the repository run the lifecycle:                       *)
(*   - agents/systematic_trader.py  (class PaperTrader, "the agent")       *)
(*   - execution_engine/orchestrator.py (class TradeOrchestrator with      *)
(*     RiskManager, PositionSizer and PolymarketExecutor)                  *)
(* The variable prog says which of the two a behaviour runs.  The other    *)
(* values of prog run one class or one pair of methods on its own, called  *)
(* in any order with inputs from small sets: RiskManager ("risk",          *)
(* "daily"), PositionSizer ("sizer"), PolymarketExecutor ("executor"),     *)
(* PaperTrader.open_position and close_position ("bank"), and the          *)
(* RateLimiter of polymarket_data ("limiter").                             *)
(*                                                                         *)
(* Numbers.  Prices are integers in cents (0..100 stands for 0.00..1.00).  *)
(* The agent's money is in cents and its share counts in 1/1000 share.     *)
(* The orchestrator's notionals are in 1/1000 cent, because a fill price   *)
(* is a cent price times (1 +- slippage) with slippage in 1/1000.          *)
(* Divisions round down to the unit.  The price grid avoids the pairs on   *)
(* which Python's floats and exact arithmetic disagree at a threshold.     *)
(***************************************************************************)
EXTENDS Integers, Sequences, FiniteSets, TLC

VARIABLES
    prog,          \* the program this behaviour runs: "agent", "orch" or one of the units
    now,           \* wall clock, minutes
    shutdown_flag, \* data/EMERGENCY_STOP exists
    \* ---- agents/systematic_trader.py: PaperTrader ----
    positions,     \* self.positions, in insertion order (a dict keyed by trade_id)
    bankroll,      \* self.bankroll, cents
    trades,        \* rows of the trades table, index = id (the columns the agent reads back)
    ruled_out,     \* self.market_cache.ruled_out: market -> entry or NoEntry
    all_markets,   \* the snapshot fetched by the running cycle
    pc,            \* position of the agent's loop
    posTodo,       \* positions_to_check still to visit
    mktTodo,       \* markets of all_markets still to visit
    \* ---- execution_engine: TradeOrchestrator and RiskManager ----
    config,        \* self.config: mode and dry_run
    opositions,    \* TradeOrchestrator.positions (a list; closed positions stay in it)
    is_running,    \* TradeOrchestrator.is_running
    peak_equity,   \* RiskManager.peak_equity, dollars
    current_equity,\* RiskManager.current_equity, dollars
    daily_pnl,     \* RiskManager.daily_pnl, 1/1000 cent
    daily_start,   \* RiskManager.daily_start, a day number
    today,         \* datetime.utcnow().date(), a day number
    obankroll,     \* TradeOrchestrator.bankroll, 1/1000 cent
    opc,           \* position of run_forever
    signals,       \* signals of the running cycle still to process
    cycles,        \* number of trading cycles started
    \* ---- polymarket_data/rate_limiter.py: RateLimiter ----
    clock,         \* time.time(), ticks of 50 ms
    last_request,  \* self._last_request: category -> time of the last grant, or NoRequest
    locks,         \* self._locks: lock -> the caller holding it and the queue of waiters
    callers,       \* the coroutines calling acquire: where each one is (idle: not in a call)
    \* ---- observation only ----
    faults,        \* store failures injected so far
    restarts,      \* restarts of the agent so far
    exited,        \* markets on which the running agent cycle has closed a position
    exits_done,    \* _check_exits has run in the orchestrator's running cycle
    retry,         \* per trade_id, the exit that fired last and whose close failed
    hist           \* what the last step did

agentVars == <<positions, bankroll, trades, ruled_out, all_markets, pc, posTodo, mktTodo, now,
               restarts, exited>>

orchVars == <<config, opositions, is_running, peak_equity, current_equity, daily_pnl,
              daily_start, today, obankroll,
              opc, signals, cycles, exits_done>>

limiterVars == <<clock, last_request, locks, callers>>

(***************************************************************************)
(* Bounds of the model                                                     *)
(***************************************************************************)
MaxTime == 65
MaxCycles == 2

\* store failures injected in one run
MaxFaults == 1
MaxRestarts == 1

Markets == {"m1", "m2", "m3"}
MarketOrder == <<"m1", "m2", "m3">>

None == "None"
NoEntry == [present |-> FALSE, last_price |-> 0, timestamp |-> 0]

(***************************************************************************)
(* Configuration and constants of PaperTrader.__init__                     *)
(***************************************************************************)
\* --model of this trader, and the name of another trader on the same store
model_name == "conservative"
other_model == "aggressive"
StartBankroll == 100000
favorite_threshold == 75
longshot_threshold == 30
min_mispricing_pct == 5
max_position_usd == 50000
max_positions == 2
check_interval == 40
take_profit_pct == 50
stop_loss_pct == -50
reversion_threshold == 40
reversion_entry_ceiling == 30
min_size_usd == 1000
refresh_interval == 60
price_threshold == 5
resolved_win_price == 95
resolved_loss_price == 5

(***************************************************************************)
(* Market snapshots: what fetch_markets can return for one market          *)
(***************************************************************************)
Absent == [present |-> FALSE, yes |-> 0, closed |-> FALSE, filter |-> "ok"]

Snap(y, c, f) == [present |-> TRUE, yes |-> y, closed |-> c, filter |-> f]

\* YES prices of an open market that passes the stale and activity filters;
\* at 0 the signal's entry price is 0 and open_position's division raises
OpenPrices == {0, 4, 10, 29, 40, 42, 46, 80}

\* what a successful fetch can list for a market: m1 ranges over the whole
\* grid, is missing from the response, fails a filter ("stale", "inactive") or
\* has a null question, on which is_stale_market raises ("raises"); m2 and m3 are there to compete for
\* the position slots and stay quoted at a signal price
MarketSnapshots(m) ==
    IF m = "m1"
    THEN {Absent}
         \cup {Snap(y, FALSE, "ok") : y \in OpenPrices}
         \cup {Snap(y, TRUE, "ok") : y \in {4, 40}}
         \cup {Snap(10, FALSE, "stale"), Snap(10, FALSE, "inactive")}
         \cup {Snap(10, FALSE, "raises")}
    ELSE {Snap(10, FALSE, "ok")}

\* fetch_markets: the response, or nothing when the request fails
FetchResults ==
    {[m \in Markets |-> Absent]}
    \cup {[m1 |-> s1, m2 |-> s2, m3 |-> s3] :
            s1 \in MarketSnapshots("m1"), s2 \in MarketSnapshots("m2"),
            s3 \in MarketSnapshots("m3")}

\* get_market_price(market, side)
get_market_price(market, side) ==
    IF side = "YES" THEN market.yes ELSE 100 - market.yes

(***************************************************************************)
(* MarketCache                                                             *)
(***************************************************************************)
\* is_ruled_out: the value returned
is_ruled_out(cache, market_id, t) ==
    /\ cache[market_id].present
    /\ ~ (t - cache[market_id].timestamp > refresh_interval)

\* is_ruled_out: the cache it leaves (an expired entry is deleted)
expire(cache, market_id, t) ==
    IF cache[market_id].present /\ t - cache[market_id].timestamp > refresh_interval
    THEN [cache EXCEPT ![market_id] = NoEntry]
    ELSE cache

rule_out(cache, market_id, price, t) ==
    [cache EXCEPT ![market_id] = [present |-> TRUE, last_price |-> price, timestamp |-> t]]

\* last_price is truthy when it is neither None nor 0.0
clear_if_price_changed(cache, market_id, current_price) ==
    IF /\ cache[market_id].present
       /\ cache[market_id].last_price # 0
       /\ (IF current_price >= cache[market_id].last_price
           THEN current_price - cache[market_id].last_price
           ELSE cache[market_id].last_price - current_price) > price_threshold
    THEN [cache EXCEPT ![market_id] = NoEntry]
    ELSE cache

(***************************************************************************)
(* Exit rule                                                               *)
(***************************************************************************)
NoSell == [sell |-> FALSE, reason |-> None, exit_price |-> 0]
Sell(r, x) == [sell |-> TRUE, reason |-> r, exit_price |-> x]

\* pnl_pct >= bound, with pnl_pct = (current - entry) / entry * 100 and 0 when entry <= 0
PnlAtLeast(entry_price, current_price, bound) ==
    IF entry_price > 0
    THEN (current_price - entry_price) * 100 >= bound * entry_price
    ELSE 0 >= bound

PnlAtMost(entry_price, current_price, bound) ==
    IF entry_price > 0
    THEN (current_price - entry_price) * 100 <= bound * entry_price
    ELSE 0 <= bound

\* should_sell with the reversion rule tried before the take-profit rule
should_sell_reversion_first(position, current_price, market) ==
    IF market.closed /\ current_price >= resolved_win_price THEN Sell("WIN", 100)
    ELSE IF market.closed /\ current_price <= resolved_loss_price THEN Sell("LOSS", 0)
    ELSE IF /\ position.side \in {"YES", "NO"}
            /\ position.entry_price < reversion_entry_ceiling
            /\ current_price >= reversion_threshold
         THEN Sell("REVERSION", current_price)
    ELSE IF PnlAtLeast(position.entry_price, current_price, take_profit_pct)
         THEN Sell("TAKE_PROFIT", current_price)
    ELSE IF PnlAtMost(position.entry_price, current_price, stop_loss_pct)
         THEN Sell("STOP_LOSS", current_price)
    ELSE NoSell

\* should_sell without the take-profit rule
should_sell_no_take_profit(position, current_price, market) ==
    IF market.closed /\ current_price >= resolved_win_price THEN Sell("WIN", 100)
    ELSE IF market.closed /\ current_price <= resolved_loss_price THEN Sell("LOSS", 0)
    ELSE IF PnlAtMost(position.entry_price, current_price, stop_loss_pct)
         THEN Sell("STOP_LOSS", current_price)
    ELSE IF /\ position.side \in {"YES", "NO"}
            /\ position.entry_price < reversion_entry_ceiling
            /\ current_price >= reversion_threshold
         THEN Sell("REVERSION", current_price)
    ELSE NoSell

should_sell(position, current_price, market) ==
    IF market.closed /\ current_price >= resolved_win_price THEN Sell("WIN", 100)
    ELSE IF market.closed /\ current_price <= resolved_loss_price THEN Sell("LOSS", 0)
    ELSE IF PnlAtLeast(position.entry_price, current_price, take_profit_pct)
         THEN Sell("TAKE_PROFIT", current_price)
    ELSE IF PnlAtMost(position.entry_price, current_price, stop_loss_pct)
         THEN Sell("STOP_LOSS", current_price)
    ELSE IF /\ position.side \in {"YES", "NO"}
            /\ position.entry_price < reversion_entry_ceiling
            /\ current_price >= reversion_threshold
         THEN Sell("REVERSION", current_price)
    ELSE NoSell

(***************************************************************************)
(* The agent's money state: positions (in insertion order), bankroll and   *)
(* the rows of the trades table                                            *)
(***************************************************************************)
St(ps, b, t) == [positions |-> ps, bankroll |-> b, trades |-> t]

\* _load_open_positions without "AND model = ?": the open rows of every trader
load_open_positions_any_model(rows) ==
    LET all == [i \in 1..Len(rows) |->
                   [trade_id |-> i, market_id |-> rows[i].market_id, side |-> rows[i].side,
                    entry_price |-> rows[i].entry_price, size_usd |-> rows[i].size_usd,
                    shares |-> rows[i].shares]]
    IN  SelectSeq(all, LAMBDA p : rows[p.trade_id].status = "open")

\* _load_open_positions: the open rows of the trades table of this trader
RECURSIVE load_from(_, _)
load_from(rows, i) ==
    IF i > Len(rows) THEN <<>>
    ELSE (IF rows[i].status = "open" /\ rows[i].model = model_name
          THEN <<[trade_id |-> i, market_id |-> rows[i].market_id, side |-> rows[i].side,
                  entry_price |-> rows[i].entry_price, size_usd |-> rows[i].size_usd,
                  shares |-> rows[i].shares]>>
          ELSE <<>>) \o load_from(rows, i + 1)

load_open_positions(rows) == load_from(rows, 1)

\* close_position that drops the position and credits the bankroll even when
\* the UPDATE raises
close_position_unguarded(st, position, exit_price, dbOk) ==
    LET exit_value == (position.shares * exit_price) \div 1000
    IN  St(SelectSeq(st.positions, LAMBDA p : p.trade_id # position.trade_id),
           st.bankroll + exit_value,
           IF dbOk
           THEN [st.trades EXCEPT ![position.trade_id] = [@ EXCEPT !.status = "closed"]]
           ELSE st.trades)

\* close_position: dbOk = FALSE is the UPDATE raising (the except branch)
\* close_position that leaves the position in the trader's open set
close_position_keeps_position(st, position, exit_price, dbOk) ==
    LET exit_value == (position.shares * exit_price) \div 1000
    IN  IF ~dbOk THEN st
        ELSE St(st.positions, st.bankroll + exit_value,
                [st.trades EXCEPT ![position.trade_id] = [@ EXCEPT !.status = "closed"]])

close_position(st, position, exit_price, dbOk) ==
    LET exit_value == (position.shares * exit_price) \div 1000
        pnl == exit_value - position.size_usd
    IN  IF ~dbOk THEN st
        ELSE St(SelectSeq(st.positions, LAMBDA p : p.trade_id # position.trade_id),
                st.bankroll + exit_value,
                [st.trades EXCEPT ![position.trade_id] = [@ EXCEPT !.status = "closed"]])

(***************************************************************************)
(* Entry signal                                                            *)
(***************************************************************************)
NoSignal == [signal |-> FALSE, side |-> None, price |-> 0, mispricing_pct |-> 0]
Signal(s, p, m) == [signal |-> TRUE, side |-> s, price |-> p, mispricing_pct |-> m]

analyze_market_for_entry(market) ==
    IF market.closed THEN NoSignal
    ELSE IF market.yes >= favorite_threshold
         THEN IF market.yes - 50 >= min_mispricing_pct
              THEN Signal("NO", 100 - market.yes, market.yes - 50)
              ELSE NoSignal
    ELSE IF market.yes <= longshot_threshold
         THEN IF 50 - market.yes >= min_mispricing_pct
              THEN Signal("YES", market.yes, 50 - market.yes)
              ELSE NoSignal
    ELSE NoSignal

Min(a, b) == IF a <= b THEN a ELSE b
Max(a, b) == IF a >= b THEN a ELSE b

\* kelly_fraction 0.25 * edge * bankroll * (0.5 + ai_confidence * 0.5), confidence in percent
calculate_position_size(signal, bank, ai_confidence) ==
    LET kelly_size == (((bank * signal.mispricing_pct) \div 400) * (100 + ai_confidence)) \div 200
        size1 == Min(kelly_size, max_position_usd)
        size2 == Min(size1, bank \div 4)
    IN  Max(size2, min_size_usd)

MarketIds(ps) == {ps[i].market_id : i \in 1..Len(ps)}

\* open_position without the test for an existing position on the market
open_position_any_market(st, market_id, signal, ai_confidence, dbOk) ==
    LET size_usd == calculate_position_size(signal, st.bankroll, ai_confidence)
        entry_price == signal.price
        shares == (size_usd * 1000) \div entry_price
        trade_id == Len(st.trades) + 1
        row == [market_id |-> market_id, side |-> signal.side, entry_price |-> entry_price,
                size_usd |-> size_usd, shares |-> shares, status |-> "open",
                model |-> model_name]
        pos == [trade_id |-> trade_id, market_id |-> market_id, side |-> signal.side,
                entry_price |-> entry_price, size_usd |-> size_usd, shares |-> shares]
    IN  IF Len(st.positions) >= max_positions THEN [outcome |-> "max_positions", st |-> st]
        ELSE IF entry_price = 0 THEN [outcome |-> "open_error", st |-> st]
        ELSE IF size_usd > st.bankroll THEN [outcome |-> "bankroll", st |-> st]
        ELSE IF ~dbOk
             THEN [outcome |-> "open_failed",
                   st |-> St(st.positions, st.bankroll - size_usd, st.trades)]
        ELSE [outcome |-> "opened",
              st |-> St(Append(st.positions, pos), st.bankroll - size_usd,
                        Append(st.trades, row))]

\* open_position without the bankroll test
open_position_any_size(st, market_id, signal, ai_confidence, dbOk) ==
    LET size_usd == calculate_position_size(signal, st.bankroll, ai_confidence)
        entry_price == signal.price
        shares == (size_usd * 1000) \div entry_price
        trade_id == Len(st.trades) + 1
        row == [market_id |-> market_id, side |-> signal.side, entry_price |-> entry_price,
                size_usd |-> size_usd, shares |-> shares, status |-> "open",
                model |-> model_name]
        pos == [trade_id |-> trade_id, market_id |-> market_id, side |-> signal.side,
                entry_price |-> entry_price, size_usd |-> size_usd, shares |-> shares]
    IN  IF market_id \in MarketIds(st.positions) THEN [outcome |-> "existing", st |-> st]
        ELSE IF Len(st.positions) >= max_positions THEN [outcome |-> "max_positions", st |-> st]
        ELSE IF entry_price = 0 THEN [outcome |-> "open_error", st |-> st]
        ELSE IF ~dbOk
             THEN [outcome |-> "open_failed",
                   st |-> St(st.positions, st.bankroll - size_usd, st.trades)]
        ELSE [outcome |-> "opened",
              st |-> St(Append(st.positions, pos), st.bankroll - size_usd,
                        Append(st.trades, row))]

\* open_position: the outcome and the state it leaves.  dbOk = FALSE is the
\* INSERT raising, which happens after the bankroll has been debited.
open_position(st, market_id, signal, ai_confidence, dbOk) ==
    LET size_usd == calculate_position_size(signal, st.bankroll, ai_confidence)
        entry_price == signal.price
        shares == (size_usd * 1000) \div entry_price
        trade_id == Len(st.trades) + 1
        row == [market_id |-> market_id, side |-> signal.side, entry_price |-> entry_price,
                size_usd |-> size_usd, shares |-> shares, status |-> "open",
                model |-> model_name]
        pos == [trade_id |-> trade_id, market_id |-> market_id, side |-> signal.side,
                entry_price |-> entry_price, size_usd |-> size_usd, shares |-> shares]
    IN  IF market_id \in MarketIds(st.positions) THEN [outcome |-> "existing", st |-> st]
        ELSE IF Len(st.positions) >= max_positions THEN [outcome |-> "max_positions", st |-> st]
        ELSE IF entry_price = 0 THEN [outcome |-> "open_error", st |-> st]
        ELSE IF size_usd > st.bankroll THEN [outcome |-> "bankroll", st |-> st]
        ELSE IF ~dbOk
             THEN [outcome |-> "open_failed",
                   st |-> St(st.positions, st.bankroll - size_usd, st.trades)]
        ELSE [outcome |-> "opened",
              st |-> St(Append(st.positions, pos), st.bankroll - size_usd,
                        Append(st.trades, row))]

(***************************************************************************)
(* AI verdicts: evaluate_market returns trade and confidence (percent)     *)
(***************************************************************************)
\* what happens to the request: the evaluator is disabled (no API key), the
\* request raises or times out, the model answers with a JSON object that has
\* no "trade" key, or it answers trade true / trade false
AIResponses == {"disabled", "error", "unusable", "approve", "reject"}

\* a verdict is a dict: has_trade tells whether it has the key "trade"
Verdict(h, t, c) == [has_trade |-> h, trade |-> t, confidence |-> c]

\* evaluate_market that turns an answer without "trade" into an approval
evaluate_market_fail_open(response) ==
    IF response = "reject" THEN Verdict(TRUE, FALSE, 50) ELSE Verdict(TRUE, TRUE, 50)

\* AIMarketEvaluator.evaluate_market: the dict returned
evaluate_market(response) ==
    IF response = "disabled" THEN Verdict(TRUE, TRUE, 50)
    ELSE IF response = "error" THEN Verdict(TRUE, TRUE, 50)
    ELSE IF response = "unusable" THEN Verdict(FALSE, FALSE, 50)
    ELSE IF response = "approve" THEN Verdict(TRUE, TRUE, 50)
    ELSE Verdict(TRUE, FALSE, 50)

\* the verdicts evaluate_market can return
AIVerdicts == {evaluate_market(response) : response \in AIResponses}

\* the evaluator was not called
NoVerdict == Verdict(FALSE, FALSE, 0)

(***************************************************************************)
(* One iteration of the entry loop of run_scan_cycle for market_id         *)
(***************************************************************************)
scan_market(st, cache, market_id, market, t, verdict, dbOk) ==
    IF is_ruled_out(cache, market_id, t)
    THEN [outcome |-> "cached", st |-> st, cache |-> cache]
    ELSE
    LET c0 == expire(cache, market_id, t)
        current_price == get_market_price(market, "YES")
        c1 == IF current_price # 0 THEN clear_if_price_changed(c0, market_id, current_price) ELSE c0
        signal == analyze_market_for_entry(market)
        opened == open_position(st, market_id, signal, verdict.confidence, dbOk)
    IN  IF market.filter = "raises"
        THEN [outcome |-> "error", st |-> st, cache |-> c1]
        ELSE IF market.filter = "stale"
        THEN [outcome |-> "stale", st |-> st, cache |-> rule_out(c1, market_id, current_price, t)]
        ELSE IF market.filter = "inactive"
        THEN [outcome |-> "inactive", st |-> st, cache |-> rule_out(c1, market_id, current_price, t)]
        ELSE IF ~signal.signal
        THEN [outcome |-> "no_signal", st |-> st, cache |-> rule_out(c1, market_id, current_price, t)]
        ELSE IF ~(verdict.has_trade /\ verdict.trade)
        THEN [outcome |-> "ai_rejected", st |-> st, cache |-> rule_out(c1, market_id, current_price, t)]
        ELSE [outcome |-> opened.outcome, st |-> opened.st, cache |-> c1]

(***************************************************************************)
(* execution_engine: configuration (models.TradingConfig).  Money of the   *)
(* orchestrator is in 1/1000 cent; the configuration is in dollars.        *)
(***************************************************************************)
\* 1/1000 cents in a dollar
USD == 100 * 1000
config_max_position_usd == 500
config_max_total_exposure_usd == 1000
config_max_positions == 3
config_max_drawdown_pct == 25
config_min_position_usd == 50
config_max_spread_pct == 5
current_spread == 2

Configs == {[mode |-> "paper", dry_run |-> TRUE],
            [mode |-> "paper", dry_run |-> FALSE],
            [mode |-> "live", dry_run |-> FALSE]}

\* random.uniform(0.002, 0.005), in 1/1000: the two ends of the range
Slippages == {2, 5}

\* the orchestrator's bankroll never changes: config.max_total_exposure_usd
orch_bankroll == config_max_total_exposure_usd * USD

\* mean_reversion Signal: direction is the value of SignalDirection ("buy" or
\* "sell"), prices in cents, position_size (the size the signal asks for) in
\* dollars
OSignal(m, d, p, f, z) == [market_id |-> m, direction |-> d, current_price |-> p,
                           fair_value_estimate |-> f, position_size |-> z]

\* what _scan_signals can return: one kind of signal per market; the signal on
\* m3 asks for 3000 dollars
SignalSet == {OSignal("m1", "buy", 50, 75, 250), OSignal("m2", "buy", 20, 50, 250),
              OSignal("m3", "buy", 10, 20, 3000), OSignal("m4", "buy", 50, 55, 250),
              OSignal("m5", "sell", 80, 75, 250)}

Abs(x) == IF x >= 0 THEN x ELSE -x

\* PositionSizer.calculate_size without its lower limit
calculate_size_no_floor(current_price, fair_value, bank) ==
    LET variance == current_price * (100 - current_price)
        edge == IF fair_value >= current_price THEN fair_value - current_price
                ELSE current_price - fair_value
        position_size == ((bank \div 1000) * edge * 100) \div (4 * variance)
    IN  IF variance <= 0 THEN 0
        ELSE (IF position_size <= config_max_position_usd * 100 THEN position_size
              ELSE config_max_position_usd * 100) * 1000

\* PositionSizer.calculate_from_signal and calculate_size, kelly_fraction =
\* 0.25; prices in cents, bankroll and result in 1/1000 cent (the Kelly size
\* is computed and limited in cents)
calculate_size(current_price, fair_value, bank) ==
    LET variance == current_price * (100 - current_price)
        edge == Abs(fair_value - current_price)
        position_size == ((bank \div 1000) * edge * 100) \div (4 * variance)
    IN  IF variance <= 0 THEN config_min_position_usd * USD
        ELSE Min(config_max_position_usd * 100,
                 Max(config_min_position_usd * 100, position_size)) * 1000

\* PositionSizer.shares_for_usd: math.floor(usd_amount / price), price in cents
shares_for_usd(usd_amount, price) ==
    IF price <= 0 THEN 0 ELSE Max(0, usd_amount \div (price * 1000))

OpenOnes(ps) == SelectSeq(ps, LAMBDA p : p.status = "open")

RECURSIVE SumNotional(_)
SumNotional(ps) ==
    IF ps = <<>> THEN 0 ELSE Head(ps).size * Head(ps).entry_price + SumNotional(Tail(ps))

\* sum(pos.size * pos.entry_price for pos in positions if pos.status.value == "open")
total_exposure(ps) == SumNotional(OpenOnes(ps))

\* drawdown_pct > max_drawdown_pct, with the guard peak_equity > 0
DrawdownExceeded(peak, cur) ==
    /\ peak > 0
    /\ (peak - cur) * 100 > config_max_drawdown_pct * peak

\* check_trade with the position-count check moved in front of the exposure check
check_trade_count_first(size_usd, ps, current_spread_pct, peak, cur) ==
    IF size_usd > config_max_position_usd * USD THEN "max_position"
    ELSE IF size_usd < config_min_position_usd * USD THEN "min_position"
    ELSE IF Len(OpenOnes(ps)) >= config_max_positions THEN "max_positions"
    ELSE IF total_exposure(ps) + size_usd > config_max_total_exposure_usd * USD THEN "exposure"
    ELSE IF current_spread_pct > config_max_spread_pct THEN "spread"
    ELSE IF DrawdownExceeded(peak, cur) THEN "drawdown"
    ELSE "passed"

\* check_trade without the position-count check
check_trade_no_count(size_usd, ps, current_spread_pct, peak, cur) ==
    IF size_usd > config_max_position_usd * USD THEN "max_position"
    ELSE IF size_usd < config_min_position_usd * USD THEN "min_position"
    ELSE IF total_exposure(ps) + size_usd > config_max_total_exposure_usd * USD THEN "exposure"
    ELSE IF current_spread_pct > config_max_spread_pct THEN "spread"
    ELSE IF DrawdownExceeded(peak, cur) THEN "drawdown"
    ELSE "passed"

\* RiskManager.check_trade: the reason of the first failing check, or "passed"
check_trade(size_usd, ps, current_spread_pct, peak, cur) ==
    IF size_usd > config_max_position_usd * USD THEN "max_position"
    ELSE IF size_usd < config_min_position_usd * USD THEN "min_position"
    ELSE IF total_exposure(ps) + size_usd > config_max_total_exposure_usd * USD THEN "exposure"
    ELSE IF Len(OpenOnes(ps)) >= config_max_positions THEN "max_positions"
    ELSE IF current_spread_pct > config_max_spread_pct THEN "spread"
    ELSE IF DrawdownExceeded(peak, cur) THEN "drawdown"
    ELSE "passed"

\* RiskManager.should_emergency_stop
should_emergency_stop(peak, cur) == DrawdownExceeded(peak, cur)

\* what execute_trade leaves: the ExecutionResult's success (FALSE too when
\* the call raises and returns nothing), the trade's status, filled_size
\* (shares) and average_price (1/1000 cent per share)
Execution(ok, r, st, f, a) ==
    [success |-> ok, raised |-> r, status |-> st, filled_size |-> f, average_price |-> a]

\* execute_trade whose paper fill is above the order's price on either side
execute_trade_slip_up(cfg, side, size, price, slip) ==
    IF cfg.dry_run THEN Execution(TRUE, FALSE, "filled", size, price * 1000)
    ELSE IF cfg.mode = "paper"
    THEN IF price = 0 THEN Execution(FALSE, TRUE, "pending", 0, 0)
         ELSE Execution(TRUE, FALSE, "filled", size, price * (1000 + slip))
    ELSE Execution(FALSE, FALSE, "failed", 0, 0)

\* execute_trade whose paper fill leaves one share of the order unfilled
execute_trade_partial(cfg, side, size, price, slip) ==
    IF cfg.dry_run THEN Execution(TRUE, FALSE, "filled", size, price * 1000)
    ELSE IF cfg.mode = "paper"
    THEN IF price = 0 THEN Execution(FALSE, TRUE, "pending", 0, 0)
         ELSE Execution(TRUE, FALSE, IF size > 0 THEN "partial" ELSE "filled",
                        IF size > 0 THEN size - 1 ELSE 0, price * (1000 - slip))
    ELSE Execution(FALSE, FALSE, "failed", 0, 0)

\* PolymarketExecutor.execute_trade on a pending trade of size shares at price
\* (cents); slip is the paper mode's random slippage, in 1/1000.  The paper
\* mode divides by the price to log the slippage and raises when it is 0; the
\* live mode (its client has been initialised) is not implemented and fails.
execute_trade(cfg, side, size, price, slip) ==
    IF cfg.dry_run THEN Execution(TRUE, FALSE, "filled", size, price * 1000)
    ELSE IF cfg.mode = "paper"
    THEN IF price = 0 THEN Execution(FALSE, TRUE, "pending", 0, 0)
         ELSE Execution(TRUE, FALSE, "filled", size,
                        IF side = "BUY" THEN price * (1000 + slip)
                        ELSE price * (1000 - slip))
    ELSE Execution(FALSE, FALSE, "failed", 0, 0)

\* Position.stop_loss and Position.take_profit when they are not given (None)
NoLevel == 0

\* _process_signal that sends the trade although the risk check failed
process_signal_despite_risk(cfg, ps, signal, peak, cur, slip) ==
    LET existing == \E i \in 1..Len(ps) :
                        ps[i].market_id = signal.market_id /\ ps[i].status = "open"
        position_size_usd == calculate_size(signal.current_price, signal.fair_value_estimate,
                                            orch_bankroll)
        risk_check == check_trade(position_size_usd, ps, current_spread, peak, cur)
        shares == shares_for_usd(position_size_usd, signal.current_price)
        side == IF signal.direction = "BUY" THEN "BUY" ELSE "SELL"
        result == execute_trade(cfg, side, shares, signal.current_price, slip)
        position == [market_id |-> signal.market_id, side |-> side,
                     size |-> result.filled_size,
                     entry_price |-> result.average_price,
                     current_price |-> result.average_price,
                     stop_loss |-> NoLevel, take_profit |-> NoLevel, status |-> "open"]
    IN  IF existing THEN [outcome |-> "existing", positions |-> ps, sent |-> FALSE]
        ELSE IF risk_check # "passed"
             THEN [outcome |-> risk_check,
                   positions |-> IF result.success THEN Append(ps, position) ELSE ps,
                   sent |-> TRUE]
        ELSE IF result.success
             THEN [outcome |-> "opened", positions |-> Append(ps, position), sent |-> TRUE]
        ELSE [outcome |-> "trade_failed", positions |-> ps, sent |-> TRUE]

\* TradeOrchestrator._process_signal: the outcome, the positions it leaves and
\* whether a trade was sent to the executor
process_signal(cfg, ps, signal, peak, cur, slip) ==
    LET existing == \E i \in 1..Len(ps) :
                        ps[i].market_id = signal.market_id /\ ps[i].status = "open"
        position_size_usd == calculate_size(signal.current_price, signal.fair_value_estimate,
                                            orch_bankroll)
        risk_check == check_trade(position_size_usd, ps, current_spread, peak, cur)
        shares == shares_for_usd(position_size_usd, signal.current_price)
        side == IF signal.direction = "BUY" THEN "BUY" ELSE "SELL"
        result == execute_trade(cfg, side, shares, signal.current_price, slip)
        position == [market_id |-> signal.market_id, side |-> side,
                     size |-> result.filled_size,
                     entry_price |-> result.average_price,
                     current_price |-> result.average_price,
                     stop_loss |-> NoLevel, take_profit |-> NoLevel, status |-> "open"]
    IN  IF existing THEN [outcome |-> "existing", positions |-> ps, sent |-> FALSE]
        ELSE IF risk_check # "passed"
             THEN [outcome |-> risk_check, positions |-> ps, sent |-> FALSE]
        ELSE IF result.success
             THEN [outcome |-> "opened", positions |-> Append(ps, position), sent |-> TRUE]
        ELSE [outcome |-> "trade_failed", positions |-> ps, sent |-> TRUE]

\* TradeOrchestrator._close_position on the i-th position
close_one(cfg, ps, i, slip) ==
    LET side == IF ps[i].side = "BUY" THEN "SELL" ELSE "BUY"
        result == execute_trade(cfg, side, ps[i].size, ps[i].current_price \div 1000, slip)
    IN  IF result.success THEN [ps EXCEPT ![i].status = "closed"] ELSE ps

\* TradeOrchestrator._close_all_positions
RECURSIVE close_from(_, _, _, _)
close_from(cfg, ps, i, slip) ==
    IF i > Len(ps) THEN ps
    ELSE close_from(cfg, IF ps[i].status = "open" THEN close_one(cfg, ps, i, slip) ELSE ps,
                    i + 1, slip)

\* TradeOrchestrator._check_exits: the stop-loss test, then the take-profit
\* test, on every position that is open when the pass reaches it
RECURSIVE check_exits_from(_, _, _, _)
check_exits_from(cfg, ps, i, slip) ==
    IF i > Len(ps) THEN ps
    ELSE IF ps[i].status # "open" THEN check_exits_from(cfg, ps, i + 1, slip)
    ELSE LET after_stop ==
                 IF ps[i].stop_loss # NoLevel /\ ps[i].current_price <= ps[i].stop_loss
                 THEN close_one(cfg, ps, i, slip) ELSE ps
             after_take ==
                 IF ps[i].take_profit # NoLevel /\ ps[i].current_price >= ps[i].take_profit
                 THEN close_one(cfg, after_stop, i, slip) ELSE after_stop
         IN  check_exits_from(cfg, after_take, i + 1, slip)

check_exits(cfg, ps, slip) == check_exits_from(cfg, ps, 1, slip)

\* _close_all_positions that closes nothing
close_no_position(cfg, ps, slip) == ps

close_all_positions(cfg, ps, slip) == close_from(cfg, ps, 1, slip)

(***************************************************************************)
(* Actions of the agent                                                    *)
(***************************************************************************)
Present(ms) == SelectSeq(MarketOrder, LAMBDA m : ms[m].present)

\* time the cycle itself took, on top of check_interval
CycleDurations == {0, 20, 25}

\* outcomes of a write to the store: it succeeds, or (MaxFaults times) raises
DbOutcomes == IF faults < MaxFaults THEN BOOLEAN ELSE {TRUE}

\* fetch_markets handing on whatever arrived before the request failed
fetch_markets_partial(ok, ms) == ms

\* fetch_markets: the markets of the response, or the empty list when the
\* request raises (network, timeout, HTTP status, malformed body)
fetch_markets(ok, ms) == IF ok THEN ms ELSE [m \in Markets |-> Absent]

\* run_scan_cycle, up to the two loops: fetch_markets returns a snapshot
\* and the positions to check are listed
Fetch ==
    /\ prog = "agent" /\ pc = "idle"
    /\ \E ok \in BOOLEAN, ms \in FetchResults :
        /\ all_markets' = fetch_markets(ok, ms)
        /\ mktTodo' = Present(fetch_markets(ok, ms))
        /\ hist' = [op |-> "fetch", ok |-> ok]
    /\ posTodo' = positions
    /\ pc' = "cycle"
    /\ exited' = {}
    /\ UNCHANGED <<prog, limiterVars, now, shutdown_flag, positions, bankroll, trades, ruled_out, faults, retry,
                   restarts>>
    /\ UNCHANGED orchVars

\* check_and_close_positions: one iteration of the loop over positions_to_check
CheckPosition ==
    /\ prog = "agent" /\ pc = "cycle" /\ posTodo # <<>>
    /\ LET position == Head(posTodo)
           market == all_markets[position.market_id]
           current_price == get_market_price(market, position.side)
           sell_signal == should_sell(position, current_price, market)
           st == St(positions, bankroll, trades)
       IN  /\ posTodo' = Tail(posTodo)
           /\ IF ~market.present
              THEN /\ hist' = [op |-> "check", found |-> FALSE, position |-> position]
                   /\ UNCHANGED <<positions, bankroll, trades, faults, retry, exited>>
              ELSE IF ~sell_signal.sell
              THEN /\ hist' = [op |-> "check", found |-> TRUE, position |-> position,
                               price |-> current_price, closed |-> market.closed,
                               result |-> sell_signal, dbOk |-> TRUE, pre |-> st,
                               pre_retry |-> retry]
                   /\ UNCHANGED <<positions, bankroll, trades, faults, retry, exited>>
              ELSE \E dbOk \in DbOutcomes :
                   LET st2 == close_position(st, position, sell_signal.exit_price, dbOk)
                   IN  /\ positions' = st2.positions
                       /\ bankroll' = st2.bankroll
                       /\ trades' = st2.trades
                       /\ faults' = IF dbOk THEN faults ELSE faults + 1
                       /\ exited' = IF dbOk THEN exited \cup {position.market_id} ELSE exited
                       /\ retry' = {r \in retry : r.trade_id # position.trade_id}
                                   \cup (IF dbOk THEN {}
                                         ELSE {[trade_id |-> position.trade_id,
                                                price |-> current_price,
                                                closed |-> market.closed,
                                                result |-> sell_signal]})
                       /\ hist' = [op |-> "check", found |-> TRUE, position |-> position,
                                   price |-> current_price, closed |-> market.closed,
                                   result |-> sell_signal, dbOk |-> dbOk, pre |-> st,
                                   pre_retry |-> retry]
    /\ UNCHANGED <<prog, limiterVars, now, shutdown_flag, ruled_out, all_markets, pc, mktTodo, restarts>>
    /\ UNCHANGED orchVars

\* run without its except clause: the exception ends the process
run_uncaught(outcome) == IF outcome = "error" THEN "crashed" ELSE "cycle"

\* run that goes back to the top of its loop after every step of the cycle
run_overlapping(outcome) == "idle"

\* run: where control is after a step of run_scan_cycle; an exception is
\* caught and logged and control stays in the loop, on its way to the sleep
run(outcome) == "cycle"

\* run_scan_cycle: one iteration of the loop over all_markets; an exception
\* leaves the loop and the cycle (run catches it and goes to sleep)
ScanMarket ==
    /\ prog = "agent" /\ pc = "cycle" /\ posTodo = <<>> /\ mktTodo # <<>>
    /\ LET market_id == Head(mktTodo)
           st == St(positions, bankroll, trades)
       IN  \E verdict \in AIVerdicts, dbOk \in DbOutcomes :
           LET r == scan_market(st, ruled_out, market_id, all_markets[market_id], now, verdict, dbOk)
               asked == r.outcome \notin {"cached", "error", "stale", "inactive", "no_signal"}
           IN  /\ positions' = r.st.positions
               /\ bankroll' = r.st.bankroll
               /\ trades' = r.st.trades
               /\ ruled_out' = r.cache
               /\ faults' = IF r.outcome = "open_failed" THEN faults + 1 ELSE faults
               /\ hist' = [op |-> "scan", market |-> market_id, outcome |-> r.outcome,
                           pre |-> st, entry |-> ruled_out[market_id],
                           asked |-> asked,
                           verdict |-> IF asked THEN verdict ELSE NoVerdict,
                           rest |-> Tail(mktTodo)]
               /\ mktTodo' = IF r.outcome = "error" THEN <<>> ELSE Tail(mktTodo)
               /\ pc' = run(r.outcome)
    /\ UNCHANGED <<prog, limiterVars, now, shutdown_flag, all_markets, posTodo, retry, restarts, exited>>
    /\ UNCHANGED orchVars

\* run: asyncio.sleep(check_interval) after the cycle; the cycle's local
\* all_markets is gone
Sleep ==
    /\ prog = "agent" /\ pc = "cycle" /\ posTodo = <<>> /\ mktTodo = <<>>
    /\ \E d \in CycleDurations :
        /\ now + check_interval + d <= MaxTime
        /\ now' = now + check_interval + d
    /\ pc' = "idle"
    /\ all_markets' = [m \in Markets |-> Absent]
    /\ exited' = {}
    /\ hist' = [op |-> "sleep"]
    /\ UNCHANGED <<prog, limiterVars, shutdown_flag, positions, bankroll, trades, ruled_out,
                   posTodo, mktTodo, faults, retry, restarts>>
    /\ UNCHANGED orchVars

\* the process is stopped during the sleep and started again on the same store:
\* PaperTrader.__init__ sets the starting bankroll and a new MarketCache, and
\* _load_open_positions reads the positions (the store is readable: _init_db has
\* just opened it and raises otherwise).  A restart before the first cycle is
\* the initial state again.
Restart ==
    /\ prog = "agent" /\ pc = "idle" /\ restarts < MaxRestarts /\ now > 0
    /\ restarts' = restarts + 1
    /\ bankroll' = StartBankroll
    /\ ruled_out' = [m \in Markets |-> NoEntry]
    /\ positions' = load_open_positions(trades)
    /\ hist' = [op |-> "restart", pre |-> St(positions, bankroll, trades)]
    /\ UNCHANGED <<prog, limiterVars, now, shutdown_flag, trades, all_markets, pc, posTodo, mktTodo, faults,
                   retry, exited>>
    /\ UNCHANGED orchVars

(***************************************************************************)
(* scripts/emergency_stop.py: EmergencyStop._create_shutdown_flag, run by  *)
(* the operator while the trading loop is between two cycles               *)
(***************************************************************************)
CreateShutdownFlag ==
    /\ ~shutdown_flag
    /\ \/ prog = "agent" /\ pc = "idle"
       \/ prog = "orch" /\ opc \in {"init", "loop"}
    /\ shutdown_flag' = TRUE
    /\ hist' = [op |-> "flag"]
    /\ UNCHANGED <<prog, limiterVars, faults, retry>>
    /\ UNCHANGED agentVars
    /\ UNCHANGED orchVars

(***************************************************************************)
(* Actions of the orchestrator                                             *)
(***************************************************************************)
\* equities (dollars) the owner of the RiskManager reports through update_equity
Equities == {1000, 750, 700}

\* update_equity that takes the last equity as the peak
update_equity_last(peak, equity) == equity

\* RiskManager.update_equity: the peak it leaves
update_equity(peak, equity) == IF equity > peak THEN equity ELSE peak

\* RiskManager.update_equity, called between two cycles
UpdateEquity ==
    /\ prog \in {"orch", "risk"} /\ opc \in {"init", "loop"}
    /\ \E equity \in Equities :
        /\ equity # current_equity
        /\ current_equity' = equity
        /\ peak_equity' = update_equity(peak_equity, equity)
    /\ hist' = [op |-> "update_equity"]
    /\ UNCHANGED <<prog, limiterVars, shutdown_flag, faults, retry, daily_pnl, daily_start, today, obankroll, exits_done, config,
                   opositions, is_running, opc, signals, cycles>>
    /\ UNCHANGED agentVars

\* run_forever: is_running = True, then the while loop
RunForever ==
    /\ prog = "orch" /\ opc = "init"
    /\ is_running' = TRUE
    /\ opc' = "loop"
    /\ hist' = [op |-> "run_forever"]
    /\ UNCHANGED <<prog, limiterVars, shutdown_flag, faults, retry, daily_pnl, daily_start, today, obankroll, exits_done, config, opositions, peak_equity, current_equity,
                   signals, cycles>>
    /\ UNCHANGED agentVars

\* signal lists _scan_signals can return: at most two signals
SignalLists == {<<>>} \cup {<<a>> : a \in SignalSet} \cup {<<a, b>> : a, b \in SignalSet}

\* _trading_cycle up to the loop over the signals: the emergency-stop check,
\* then _update_positions and _scan_signals
TradingCycleStart ==
    /\ prog = "orch" /\ opc = "loop" /\ is_running /\ cycles < MaxCycles
    /\ cycles' = cycles + 1
    /\ exits_done' = FALSE
    /\ IF should_emergency_stop(peak_equity, current_equity)
       THEN \E slip \in Slippages :
            /\ opositions' = close_all_positions(config, opositions, slip)
            /\ is_running' = FALSE
            /\ signals' = <<>>
            /\ opc' = "sleep"
            /\ hist' = [op |-> "cycle_start", stop |-> TRUE, pre |-> opositions]
       ELSE \E sigs \in SignalLists :
            /\ signals' = sigs
            /\ opc' = "signals"
            /\ hist' = [op |-> "cycle_start", stop |-> FALSE, pre |-> opositions]
            /\ UNCHANGED <<opositions, is_running>>
    /\ UNCHANGED <<prog, limiterVars, shutdown_flag, faults, retry, daily_pnl, daily_start, today, obankroll, config, peak_equity, current_equity>>
    /\ UNCHANGED agentVars

\* _process_signal on the next signal of the cycle; or a write of the
\* recorder or the logger raises in it: _trading_cycle catches the exception,
\* the rest of the cycle is skipped
ProcessSignal ==
    /\ prog = "orch" /\ opc = "signals" /\ signals # <<>>
    /\ \/ /\ \E slip \in Slippages :
                LET r == process_signal(config, opositions, Head(signals), peak_equity,
                                        current_equity, slip)
                IN  /\ opositions' = r.positions
                    /\ hist' = [op |-> "signal", signal |-> Head(signals),
                                outcome |-> r.outcome, sent |-> r.sent, pre |-> opositions]
          /\ signals' = Tail(signals)
          /\ opc' = opc
       \/ /\ hist' = [op |-> "signal", signal |-> Head(signals), outcome |-> "error",
                       sent |-> FALSE, pre |-> opositions]
          /\ signals' = <<>>
          /\ opc' = "sleep"
          /\ opositions' = opositions
    /\ UNCHANGED <<prog, limiterVars, shutdown_flag, faults, retry, daily_pnl, daily_start, today, obankroll, exits_done, config, is_running, peak_equity, current_equity,
                   cycles>>
    /\ UNCHANGED agentVars

\* _trading_cycle: _check_exits, the last step of the cycle
CheckExits ==
    /\ prog = "orch" /\ opc = "signals" /\ signals = <<>>
    /\ \E slip \in Slippages : opositions' = check_exits(config, opositions, slip)
    /\ opc' = "sleep"
    /\ exits_done' = TRUE
    /\ hist' = [op |-> "check_exits"]
    /\ UNCHANGED <<prog, limiterVars, shutdown_flag, faults, retry, daily_pnl, daily_start, today, obankroll, config, is_running, peak_equity,
                   current_equity, signals, cycles>>
    /\ UNCHANGED agentVars

\* run_forever: asyncio.sleep, back to the loop test
OrchSleep ==
    /\ prog = "orch" /\ opc = "sleep"
    /\ opc' = "loop"
    /\ hist' = [op |-> "sleep"]
    /\ UNCHANGED <<prog, limiterVars, shutdown_flag, faults, retry, daily_pnl, daily_start, today, obankroll, exits_done, config, opositions, is_running, peak_equity,
                   current_equity, signals, cycles>>
    /\ UNCHANGED agentVars

\* run_forever: the loop test fails, shutdown()
LoopExit ==
    /\ prog = "orch" /\ opc = "loop" /\ ~is_running
    /\ opc' = "done"
    /\ hist' = [op |-> "shutdown"]
    /\ UNCHANGED <<prog, limiterVars, shutdown_flag, faults, retry, daily_pnl, daily_start, today, obankroll, exits_done, config, opositions, is_running, peak_equity,
                   current_equity, signals, cycles>>
    /\ UNCHANGED agentVars

(***************************************************************************)
(* RiskManager.check_trade called on its own, as the unit tests do         *)
(***************************************************************************)
MaxRiskPositions == 3

\* proposed sizes, dollars: below the minimum, the minimum, in range, the
\* maximum, above the maximum
RiskSizes == {40, 50, 300, 500, 600}

\* spreads, percent: below, at and above max_spread_pct
RiskSpreads == {2, 5, 6}

\* positions handed to check_trade: 500 shares at 0.50 (250 dollars) or 800
\* shares at 0.50 (400 dollars), open, or the latter closed
RiskPositions ==
    {[market_id |-> "m1", side |-> "BUY", size |-> 500, entry_price |-> 50 * 1000,
      status |-> "open"],
     [market_id |-> "m2", side |-> "BUY", size |-> 800, entry_price |-> 50 * 1000,
      status |-> "open"],
     [market_id |-> "m3", side |-> "BUY", size |-> 800, entry_price |-> 50 * 1000,
      status |-> "closed"]}

RiskPositionLists == UNION {[1..n -> RiskPositions] : n \in 0..MaxRiskPositions}

\* what check_trade leaves behind: the RiskManager's attributes and the list
\* it was handed
RiskState(peak, cur, pnl, ps) ==
    [peak_equity |-> peak, current_equity |-> cur, daily_pnl |-> pnl, positions |-> ps]

\* check_trade that takes the current equity as the new peak
check_trade_sets_peak(peak, cur, pnl, ps) == RiskState(cur, cur, pnl, ps)

\* RiskManager.check_trade as a procedure: it reads config, peak_equity,
\* current_equity and the positions and assigns nothing
check_trade_effect(peak, cur, pnl, ps) == RiskState(peak, cur, pnl, ps)

\* one call of check_trade on the RiskManager's current peak and equity
CheckTrade ==
    /\ prog = "risk"
    /\ \E size \in RiskSizes, ps \in RiskPositionLists, spread \in RiskSpreads :
        LET after == check_trade_effect(peak_equity, current_equity, daily_pnl, ps)
        IN  /\ hist' = [op |-> "check_trade", size_usd |-> size * USD, positions |-> ps,
                        current_spread_pct |-> spread,
                        result |-> check_trade(size * USD, ps, spread, peak_equity,
                                               current_equity),
                        positions_after |-> after.positions]
            /\ peak_equity' = after.peak_equity
            /\ current_equity' = after.current_equity
            /\ daily_pnl' = after.daily_pnl
    /\ UNCHANGED <<prog, limiterVars, shutdown_flag, faults, retry, daily_start, today, config, opositions,
                   is_running, obankroll, opc, signals, cycles, exits_done>>
    /\ UNCHANGED agentVars

(***************************************************************************)
(* PositionSizer.calculate_from_signal and PaperTrader's                   *)
(* calculate_position_size called on their own, as the unit tests do       *)
(***************************************************************************)
\* prices and fair values, cents: the ends of the range, the thresholds' sides
SizerPrices == {0, 1, 5, 10, 20, 50, 60, 70, 80, 99, 100}

\* bankrolls, dollars
SizerBankrolls == {0, 100, 1000, 2000}

\* one call of PositionSizer.calculate_from_signal
CalculateFromSignal ==
    /\ prog = "sizer"
    /\ \E current_price \in SizerPrices, fair_value \in SizerPrices, bank \in SizerBankrolls :
        hist' = [op |-> "calculate_size", current_price |-> current_price,
                 fair_value |-> fair_value, bankroll |-> bank * USD,
                 result |-> calculate_size(current_price, fair_value, bank * USD)]
    /\ UNCHANGED <<prog, limiterVars, shutdown_flag, faults, retry>>
    /\ UNCHANGED agentVars
    /\ UNCHANGED orchVars

\* mispricings (percentage points) analyze_market_for_entry can put in a signal
SizerMispricings == {5, 20, 25, 46, 50}

\* ai_confidence, percent: 70 is the default of a signal without one
SizerConfidences == {0, 50, 70, 100}

\* one call of PaperTrader.calculate_position_size; the bankroll in cents
CalculatePositionSize ==
    /\ prog = "sizer"
    /\ \E m \in SizerMispricings, bank \in SizerBankrolls, c \in SizerConfidences :
        hist' = [op |-> "calculate_position_size", mispricing_pct |-> m,
                 bankroll |-> bank * 100, ai_confidence |-> c,
                 result |-> calculate_position_size(Signal("YES", 50 - m, m), bank * 100, c)]
    /\ UNCHANGED <<prog, limiterVars, shutdown_flag, faults, retry>>
    /\ UNCHANGED agentVars
    /\ UNCHANGED orchVars

(***************************************************************************)
(* PolymarketExecutor.execute_trade called on its own, as the unit tests do *)
(***************************************************************************)
\* sizes of the trade, shares
ExecutorSizes == {0, 1, 100, 500}

\* prices of the trade, cents
ExecutorPrices == {0, 10, 50, 99}

\* one call of execute_trade on a new (pending) trade
ExecuteTrade ==
    /\ prog = "executor"
    /\ \E side \in {"BUY", "SELL"}, size \in ExecutorSizes, price \in ExecutorPrices,
          slip \in Slippages :
        hist' = [op |-> "execute_trade", side |-> side, size |-> size, price |-> price,
                 result |-> execute_trade(config, side, size, price, slip)]
    /\ UNCHANGED <<prog, limiterVars, shutdown_flag, faults, retry>>
    /\ UNCHANGED agentVars
    /\ UNCHANGED orchVars

(***************************************************************************)
(* PaperTrader.open_position and close_position called in any order        *)
(***************************************************************************)
MaxBankTrades == 3

\* calls of the two methods in one behaviour; now counts them
MaxBankCalls == 4

\* bankrolls the trader can be left with after losses, cents: below the
\* minimum size, the minimum size, just above it, and four times it
BankBankrolls == {500, 1000, 1200, 4000}

\* yes prices of the markets a position is opened on, cents
EntryPrices == {4, 29, 80}

\* prices a position is closed at, cents
ExitPrices == {0, 50, 100}

\* ai_confidence of the signal, percent
BankConfidences == {70, 100}

\* one call of open_position with the signal of a market snapshot
OpenPosition ==
    /\ prog = "bank" /\ Len(trades) < MaxBankTrades /\ now < MaxBankCalls
    /\ now' = now + 1
    /\ \E m \in Markets, y \in EntryPrices, c \in BankConfidences, dbOk \in BOOLEAN :
        LET signal == analyze_market_for_entry(Snap(y, FALSE, "ok"))
            r == open_position(St(positions, bankroll, trades), m, signal, c, dbOk)
        IN  /\ signal.signal
            /\ positions' = r.st.positions
            /\ bankroll' = r.st.bankroll
            /\ trades' = r.st.trades
            /\ hist' = [op |-> "open_position", outcome |-> r.outcome,
                        size_usd |-> calculate_position_size(signal, bankroll, c),
                        pre |-> St(positions, bankroll, trades)]
    /\ UNCHANGED <<prog, limiterVars, shutdown_flag, faults, retry, ruled_out, all_markets, pc, posTodo,
                   mktTodo, restarts, exited>>
    /\ UNCHANGED orchVars

\* one call of close_position on an open position
ClosePosition ==
    /\ prog = "bank" /\ now < MaxBankCalls
    /\ now' = now + 1
    /\ \E i \in 1..Len(positions), exit_price \in ExitPrices, dbOk \in BOOLEAN :
        LET st == close_position(St(positions, bankroll, trades), positions[i], exit_price, dbOk)
        IN  /\ positions' = st.positions
            /\ bankroll' = st.bankroll
            /\ trades' = st.trades
            /\ hist' = [op |-> "close_position", exit_price |-> exit_price, dbOk |-> dbOk,
                        pre |-> St(positions, bankroll, trades)]
    /\ UNCHANGED <<prog, limiterVars, shutdown_flag, faults, retry, ruled_out, all_markets, pc, posTodo,
                   mktTodo, restarts, exited>>
    /\ UNCHANGED orchVars

(***************************************************************************)
(* RiskManager.update_daily_pnl called on its own, as the unit test does,  *)
(* while the UTC date advances                                             *)
(***************************************************************************)
MaxDays == 2

\* no further call once the total is beyond this many dollars, either way
MaxDailyTotal == 200

\* realized pnl of a close, dollars
DailyPnls == {-100, -50, 60}

\* update_daily_pnl that adds to the total whatever the date
update_daily_pnl_no_reset(total, start, date, pnl) ==
    [daily_pnl |-> total + pnl, daily_start |-> date]

\* RiskManager.update_daily_pnl: the total and the day it belongs to
update_daily_pnl(total, start, date, pnl) ==
    [daily_pnl |-> (IF date # start THEN 0 ELSE total) + pnl, daily_start |-> date]

\* the pnl passed to update_daily_pnl since the date last advanced, kept in
\* the record of the last step
PassedToday == IF hist.op = "init" THEN 0 ELSE hist.passed_today

\* one call of update_daily_pnl
UpdateDailyPnl ==
    /\ prog = "daily"
    /\ Abs(daily_pnl) <= MaxDailyTotal * USD
    /\ \E pnl \in DailyPnls :
        LET r == update_daily_pnl(daily_pnl, daily_start, today, pnl * USD)
        IN  /\ daily_pnl' = r.daily_pnl
            /\ daily_start' = r.daily_start
            /\ hist' = [op |-> "update_daily_pnl", pnl |-> pnl * USD,
                        passed_today |-> PassedToday + pnl * USD]
    /\ UNCHANGED <<prog, limiterVars, shutdown_flag, faults, retry, today, config, opositions, is_running,
                   peak_equity, current_equity, obankroll, opc, signals, cycles, exits_done>>
    /\ UNCHANGED agentVars

\* midnight UTC passes
AdvanceDate ==
    /\ prog = "daily"
    /\ today < MaxDays
    /\ today' = today + 1
    /\ hist' = [op |-> "date", passed_today |-> 0]
    /\ UNCHANGED <<prog, limiterVars, shutdown_flag, faults, retry, daily_pnl, daily_start, config, opositions,
                   is_running, peak_equity, current_equity, obankroll, opc, signals, cycles,
                   exits_done>>
    /\ UNCHANGED agentVars

(***************************************************************************)
(* polymarket_data/rate_limiter.py: RateLimiter.acquire called by          *)
(* concurrent coroutines of one event loop.  A coroutine runs without       *)
(* interruption from one await to the next, and the clock advances only     *)
(* when every coroutine is suspended (waiting for a lock or asleep).        *)
(***************************************************************************)
\* ticks the clock advances in one behaviour
MaxTicks == 4

TicksPerSecond == 2 * 10

\* time.time() when the limiter is created: far from 0
StartClock == TicksPerSecond

EndpointCategory == {"gamma", "clob", "prices"}

\* requests per second
RATE_LIMITS == [gamma |-> 10, clob |-> 5, prices |-> 5]

\* min_interval = 1.0 / RATE_LIMITS[category], in ticks
min_interval(category) == TicksPerSecond \div RATE_LIMITS[category]

\* self._last_request.get(category, 0) of a category never granted
NoRequest == 0

Callers == {"c1", "c2", "c3"}

\* the categories the callers ask for: one of each rate
CalledCategories == {"gamma", "clob"}

NoCaller == "none"

\* one lock shared by all categories
lock_of_shared(category) == "gamma"

\* self._locks[category]
lock_of(category) == category

\* acquire that never waits
acquire_wait_none(last, t, interval) == 0

\* the time acquire sleeps: min_interval - elapsed when elapsed < min_interval
acquire_wait(last, t, interval) ==
    IF t - last < interval THEN interval - (t - last) ELSE 0

IdleCaller == [pc |-> "idle", category |-> "gamma", arrived |-> 0, wake |-> 0, queued |-> FALSE]

\* the body of `async with self._locks[category]` up to its first suspension,
\* run by caller c that has just obtained the lock: either it goes to sleep
\* holding the lock, or it stamps the grant and releases the lock
Enter(c, category, arrived, queued, waiters) ==
    LET interval == min_interval(category)
        last == last_request[category]
        wait == acquire_wait(last, clock, interval)
        l == lock_of(category)
    IN  IF wait > 0
        THEN /\ callers' = [callers EXCEPT ![c] = [pc |-> "sleeping", category |-> category,
                                                   arrived |-> arrived, wake |-> clock + wait,
                                                   queued |-> queued]]
             /\ locks' = [locks EXCEPT ![l] = [holder |-> c, waiters |-> waiters]]
             /\ hist' = [op |-> "sleep", caller |-> c, category |-> category]
             /\ UNCHANGED last_request
        ELSE /\ callers' = [callers EXCEPT ![c] = IdleCaller]
             /\ locks' = [locks EXCEPT ![l] = [holder |-> NoCaller, waiters |-> waiters]]
             /\ last_request' = [last_request EXCEPT ![category] = clock]
             /\ hist' = [op |-> "grant", caller |-> c, category |-> category, at |-> clock,
                         previous |-> last, arrived |-> arrived, queued |-> queued]

\* a coroutine calls acquire(category): it takes the lock when the lock is
\* free and nobody waits for it, and joins the waiters otherwise
Acquire ==
    /\ prog = "limiter"
    /\ \E c \in Callers, category \in CalledCategories :
        LET l == lock_of(category)
        IN  /\ callers[c].pc = "idle"
            /\ IF locks[l].holder = NoCaller /\ locks[l].waiters = <<>>
               THEN Enter(c, category, clock, FALSE, <<>>)
               ELSE /\ callers' = [callers EXCEPT ![c] = [pc |-> "waiting", category |-> category,
                                                          arrived |-> clock, wake |-> 0,
                                                          queued |-> TRUE]]
                    /\ locks' = [locks EXCEPT ![l].waiters = Append(@, c)]
                    /\ hist' = [op |-> "wait", caller |-> c, category |-> category]
                    /\ UNCHANGED last_request
    /\ UNCHANGED <<prog, clock, shutdown_flag, faults, retry>>
    /\ UNCHANGED agentVars
    /\ UNCHANGED orchVars

\* the lock has been released: its first waiter takes it and goes on
CanResume(c) ==
    /\ callers[c].pc = "waiting"
    /\ locks[lock_of(callers[c].category)].holder = NoCaller
    /\ locks[lock_of(callers[c].category)].waiters # <<>>
    /\ Head(locks[lock_of(callers[c].category)].waiters) = c

Resume ==
    /\ prog = "limiter"
    /\ \E c \in Callers :
        /\ CanResume(c)
        /\ Enter(c, callers[c].category, callers[c].arrived, TRUE,
                 Tail(locks[lock_of(callers[c].category)].waiters))
    /\ UNCHANGED <<prog, clock, shutdown_flag, faults, retry>>
    /\ UNCHANGED agentVars
    /\ UNCHANGED orchVars

\* asyncio.sleep is over: the timestamp is written and the lock released
CanWake(c) == callers[c].pc = "sleeping" /\ clock >= callers[c].wake

WakeUp ==
    /\ prog = "limiter"
    /\ \E c \in Callers :
        LET category == callers[c].category
        IN  /\ CanWake(c)
            /\ callers' = [callers EXCEPT ![c] = IdleCaller]
            /\ locks' = [locks EXCEPT ![lock_of(category)].holder = NoCaller]
            /\ last_request' = [last_request EXCEPT ![category] = clock]
            /\ hist' = [op |-> "grant", caller |-> c, category |-> category, at |-> clock,
                        previous |-> last_request[category], arrived |-> callers[c].arrived,
                        queued |-> callers[c].queued]
    /\ UNCHANGED <<prog, clock, shutdown_flag, faults, retry>>
    /\ UNCHANGED agentVars
    /\ UNCHANGED orchVars

\* time passes while every coroutine is suspended
Tick ==
    /\ prog = "limiter" /\ clock < StartClock + MaxTicks
    /\ \A c \in Callers : ~CanResume(c) /\ ~CanWake(c)
    /\ clock' = clock + 1
    /\ hist' = [op |-> "tick"]
    /\ UNCHANGED <<prog, last_request, locks, callers, shutdown_flag, faults, retry>>
    /\ UNCHANGED agentVars
    /\ UNCHANGED orchVars

vars == <<prog, limiterVars, now, shutdown_flag, positions, bankroll, trades, ruled_out, all_markets, pc,
          posTodo, mktTodo, config, opositions, is_running, peak_equity, current_equity, opc,
          signals, cycles, faults, retry, hist, daily_pnl, daily_start, today, obankroll,
          restarts, exited,
          exits_done>>

(***************************************************************************)
(* Initial states                                                          *)
(***************************************************************************)
\* the store the agent starts on: empty, or left by an earlier run that opened
\* YES on m1 at 0.10 with the starting bankroll (size 75.00, 750 shares), next to
\* an open row of another trader
InitialTrades ==
    {<<>>,
     <<[market_id |-> "m1", side |-> "YES", entry_price |-> 10, size_usd |-> 7500,
        shares |-> 750000, status |-> "open", model |-> model_name],
       [market_id |-> "m2", side |-> "YES", entry_price |-> 10, size_usd |-> 7500,
        shares |-> 750000, status |-> "open", model |-> other_model]>>}

InitCommon ==
    /\ now = 0
    /\ shutdown_flag = FALSE
    /\ trades \in InitialTrades
    /\ positions = load_open_positions(trades)
    /\ clock = StartClock
    /\ last_request = [category \in EndpointCategory |-> NoRequest]
    /\ locks = [l \in EndpointCategory |-> [holder |-> NoCaller, waiters |-> <<>>]]
    /\ callers = [c \in Callers |-> IdleCaller]
    /\ \/ prog # "bank" /\ bankroll = StartBankroll
       \/ prog = "bank" /\ bankroll \in BankBankrolls
    /\ ruled_out = [m \in Markets |-> NoEntry]
    /\ all_markets = [m \in Markets |-> Absent]
    /\ pc = "idle"
    /\ posTodo = <<>>
    /\ mktTodo = <<>>
    /\ config \in Configs
    /\ opositions = <<>>
    /\ is_running = FALSE
    /\ peak_equity = 0
    /\ current_equity = 0
    /\ daily_pnl = 0
    /\ daily_start = 0
    /\ today = 0
    /\ obankroll = orch_bankroll
    /\ exits_done = FALSE
    /\ restarts = 0
    /\ exited = {}
    /\ opc = "init"
    /\ signals = <<>>
    /\ cycles = 0
    /\ faults = 0
    /\ retry = {}
    /\ hist = [op |-> "init"]

InitAgent == prog = "agent" /\ InitCommon /\ config = [mode |-> "paper", dry_run |-> TRUE]

InitOrch == prog = "orch" /\ InitCommon /\ trades = <<>>

InitRisk ==
    /\ prog = "risk" /\ InitCommon /\ trades = <<>>
    /\ config = [mode |-> "paper", dry_run |-> TRUE]

InitSizer ==
    /\ prog = "sizer" /\ InitCommon /\ trades = <<>>
    /\ config = [mode |-> "paper", dry_run |-> TRUE]

InitExecutor == prog = "executor" /\ InitCommon /\ trades = <<>>

InitDaily ==
    /\ prog = "daily" /\ InitCommon /\ trades = <<>>
    /\ config = [mode |-> "paper", dry_run |-> TRUE]

\* the trader after any number of earlier trades: nothing open, some bankroll
InitBank ==
    /\ prog = "bank" /\ InitCommon /\ trades = <<>>
    /\ config = [mode |-> "paper", dry_run |-> TRUE]

\* RateLimiter.__init__: no request yet, every lock free
InitLimiter ==
    /\ prog = "limiter" /\ InitCommon /\ trades = <<>>
    /\ config = [mode |-> "paper", dry_run |-> TRUE]

Init ==
    \/ InitAgent \/ InitOrch \/ InitRisk \/ InitSizer \/ InitExecutor \/ InitDaily \/ InitBank
    \/ InitLimiter

NextAgent ==
    \/ Fetch
    \/ CheckPosition
    \/ ScanMarket
    \/ Sleep
    \/ Restart
    \/ CreateShutdownFlag

NextOrch ==
    \/ RunForever
    \/ UpdateEquity
    \/ TradingCycleStart
    \/ ProcessSignal
    \/ CheckExits
    \/ OrchSleep
    \/ LoopExit
    \/ CreateShutdownFlag

NextRisk ==
    \/ UpdateEquity
    \/ CheckTrade

NextSizer ==
    \/ CalculateFromSignal
    \/ CalculatePositionSize

NextExecutor == ExecuteTrade

NextDaily ==
    \/ UpdateDailyPnl
    \/ AdvanceDate

NextBank ==
    \/ OpenPosition
    \/ ClosePosition

NextLimiter ==
    \/ Acquire
    \/ Resume
    \/ WakeUp
    \/ Tick

Next ==
    \/ NextAgent \/ NextOrch \/ NextRisk \/ NextSizer \/ NextExecutor \/ NextDaily \/ NextBank
    \/ NextLimiter

\* any of the programs
Spec == Init /\ [][Next]_vars

\* the agent alone
SpecAgent == InitAgent /\ [][NextAgent]_vars

\* the orchestrator alone
SpecOrch == InitOrch /\ [][NextOrch]_vars

\* the RiskManager alone
SpecRisk == InitRisk /\ [][NextRisk]_vars

\* RiskManager's daily total alone
SpecDaily == InitDaily /\ [][NextDaily]_vars

\* the rate limiter alone
SpecLimiter == InitLimiter /\ [][NextLimiter]_vars

\* open_position and close_position alone
SpecBank == InitBank /\ [][NextBank]_vars

\* the executor alone, in each of its configurations
SpecExecutor == InitExecutor /\ [][NextExecutor]_vars

\* the two position sizers alone
SpecSizer == InitSizer /\ [][NextSizer]_vars

\* the next step of the coroutine run: at most one of them is enabled
RunStep == Fetch \/ CheckPosition \/ ScanMarket \/ Sleep

\* the agent's loop left to itself (no restart, no operator) under the asyncio
\* scheduler: a coroutine that can take its next step does so
SpecAgentLoop == InitAgent /\ [][RunStep]_vars /\ WF_vars(RunStep)

\* the two trading loops under the asyncio scheduler: a loop whose cycle has
\* ended goes to its sleep, and from its sleep to the next cycle
SpecLoops ==
    /\ InitAgent \/ InitOrch
    /\ [][RunStep \/ NextOrch]_vars
    /\ WF_vars(Sleep) /\ WF_vars(Fetch)
    /\ WF_vars(OrchSleep) /\ WF_vars(TradingCycleStart)

(***************************************************************************)
(* Properties                                                              *)
(***************************************************************************)
AbsDiff(a, b) == IF a >= b THEN a - b ELSE b - a

DistinctMarkets(ps) ==
    \A i, j \in 1..Len(ps) : ps[i].market_id = ps[j].market_id => i = j

\* C1: after every step of the orchestrator the notional of the OPEN positions,
\* size x entry price at the price actually filled, is at most
\* max_total_exposure_usd.
C1_ExposureWithinCap ==
    total_exposure(opositions) <= config_max_total_exposure_usd * USD

\* C1 witness: paper fills (with slippage) have brought the orchestrator to
\* max_positions open positions whose notional is within 10 dollars of the cap
C1_Witness ==
    /\ config.mode = "paper" /\ ~config.dry_run
    /\ Len(OpenOnes(opositions)) = config_max_positions
    /\ total_exposure(opositions) > (config_max_total_exposure_usd - 10) * USD

\* C2 (amended): a close that fails leaves the positions and the bankroll as
\* they were, and the next check of that position at the same price AND with
\* the same closed flag of the market returns the same exit reason and price.
C2_FailedCloseRetries ==
    (hist.op = "check" /\ hist.found) =>
        /\ (hist.result.sell /\ ~hist.dbOk) =>
               /\ positions = hist.pre.positions
               /\ bankroll = hist.pre.bankroll
               /\ \E i \in 1..Len(positions) : positions[i] = hist.position
        /\ \A r \in hist.pre_retry :
               (/\ r.trade_id = hist.position.trade_id
                /\ r.price = hist.price
                /\ r.closed = hist.closed) => hist.result = r.result

\* C2 witness: a position whose close failed is checked again at the same
\* price on a market whose closed flag is the same, and the exit fires again
C2_Witness ==
    /\ hist.op = "check" /\ hist.found /\ hist.result.sell
    /\ \E r \in hist.pre_retry :
           /\ r.trade_id = hist.position.trade_id
           /\ r.price = hist.price
           /\ r.closed = hist.closed

\* C2 as stated: a close that fails leaves the positions and the bankroll as
\* they were, and the next check of that position at the same price returns
\* the same exit reason and price.
C2_AsStated ==
    (hist.op = "check" /\ hist.found) =>
        /\ (hist.result.sell /\ ~hist.dbOk) =>
               /\ positions = hist.pre.positions
               /\ bankroll = hist.pre.bankroll
        /\ \A r \in hist.pre_retry :
               (r.trade_id = hist.position.trade_id /\ r.price = hist.price)
                   => hist.result = r.result

\* C3: a position is added only by an open attempt that succeeds, and an open
\* attempt that does not succeed adds no position and leaves the bankroll
\* exactly as it was.
C3_FailedOpenChangesNothing ==
    (hist.op = "scan") =>
        /\ positions # hist.pre.positions => hist.outcome = "opened"
        /\ hist.outcome # "opened" =>
               /\ positions = hist.pre.positions
               /\ bankroll = hist.pre.bankroll

\* C4: the rule-out cache never suppresses a signal: a market that passes the
\* filters and for which analyze_market_for_entry returns a signal on the
\* current snapshot is never skipped as cached.
C4_CacheSuppressesNoSignal ==
    (hist.op = "scan" /\ hist.outcome = "cached") =>
        ~ (/\ all_markets[hist.market].filter = "ok"
           /\ analyze_market_for_entry(all_markets[hist.market]).signal)

\* C5: a market ruled out at price P whose entry is still inside the refresh
\* window is re-evaluated when the current price C has |C - P| > 0.05 and is
\* skipped as cached when |C - P| <= 0.05.
C5_PriceMoveInvalidates ==
    (/\ hist.op = "scan"
     /\ hist.entry.present
     /\ now - hist.entry.timestamp < refresh_interval) =>
        LET C == get_market_price(all_markets[hist.market], "YES")
            P == hist.entry.last_price
        IN  /\ AbsDiff(C, P) > price_threshold => hist.outcome # "cached"
            /\ AbsDiff(C, P) <= price_threshold => hist.outcome = "cached"

\* C6: when the emergency-stop predicate is true at the start of a cycle, the
\* cycle closes every OPEN position, takes no signal, opens no position and
\* stops the loop; once the loop is stopped no cycle runs and no position
\* changes.
C6_EmergencyStopHalts ==
    [][/\ (/\ opc = "loop" /\ is_running /\ cycles' = cycles + 1
           /\ should_emergency_stop(peak_equity, current_equity)) =>
              /\ OpenOnes(opositions') = <<>>
              /\ Len(opositions') = Len(opositions)
              /\ signals' = <<>>
              /\ ~is_running'
              /\ opc' = "sleep"
       /\ (cycles > 0 /\ ~is_running) =>
              /\ cycles' = cycles
              /\ ~is_running'
              /\ opositions' = opositions
              /\ signals' = <<>>
              /\ opc' \in {"sleep", "loop", "done"}]_vars

\* C6 witness: the loop has been stopped by an emergency stop that found
\* positions open and closed them
C6_Witness ==
    /\ opc = "done" /\ cycles > 0 /\ ~is_running
    /\ opositions # <<>> /\ OpenOnes(opositions) = <<>>
    /\ should_emergency_stop(peak_equity, current_equity)

\* C7: once the kill-switch flag data/EMERGENCY_STOP is set, the next cycle
\* start takes the emergency stop whatever the equity is, and no position is
\* opened any more.
C7_KillSwitchStops ==
    shutdown_flag =>
        /\ ~ (hist.op = "cycle_start" /\ ~hist.stop)
        /\ ~ (hist.op = "signal" /\ hist.outcome = "opened")

\* C8: no two OPEN positions of one strategy instance have the same market id.
C8_OnePositionPerMarket ==
    /\ DistinctMarkets(positions)
    /\ DistinctMarkets(OpenOnes(opositions))

\* C8 witness: with two positions open, an entry on a market that already has
\* an OPEN position has just been refused
C8_Witness ==
    /\ hist.op = "scan" /\ hist.outcome = "existing"
    /\ Len(positions) = 2

\* C9: the number of OPEN positions never exceeds max_positions, and an entry
\* attempted when the count has reached max_positions opens nothing.
C9_AtMostMaxPositions ==
    /\ Len(positions) <= max_positions
    /\ Len(OpenOnes(opositions)) <= config_max_positions
    /\ (hist.op = "scan" /\ Len(hist.pre.positions) >= max_positions) =>
           hist.outcome # "opened"
    /\ (hist.op = "signal" /\ Len(OpenOnes(hist.pre)) >= config_max_positions) =>
           hist.outcome # "opened"

\* C9 witness: a candidate with a signal the AI approved has just been refused
\* because max_positions positions are open
C9_Witness ==
    /\ hist.op = "scan" /\ hist.outcome = "max_positions"
    /\ Len(positions) = max_positions

\* C10: the exit check returns the exit of the first satisfied condition in
\* the order market-resolved, take-profit (P&L% >= 50), stop-loss
\* (P&L% <= -50), reversion-complete (entry < 0.30 and current >= 0.40), and
\* no exit exactly when none of the four holds.
C10_ExitPriority ==
    (hist.op = "check" /\ hist.found) =>
        LET e == hist.position.entry_price
            c == hist.price
            won == hist.closed /\ c >= 95
            lost == hist.closed /\ c <= 5
            profit == (c - e) * 100 >= 50 * e
            loss == (c - e) * 100 <= (-50) * e
            reverted == e < 30 /\ c >= 40
        IN  /\ hist.result =
                   (IF won THEN Sell("WIN", 100)
                    ELSE IF lost THEN Sell("LOSS", 0)
                    ELSE IF profit THEN Sell("TAKE_PROFIT", c)
                    ELSE IF loss THEN Sell("STOP_LOSS", c)
                    ELSE IF reverted THEN Sell("REVERSION", c)
                    ELSE NoSell)
            /\ ~hist.result.sell <=> ~(won \/ lost \/ profit \/ loss \/ reverted)

\* C10 witness: take-profit and reversion-complete both hold and the exit is
\* the take-profit
C10_Witness ==
    /\ hist.op = "check" /\ hist.found
    /\ hist.position.entry_price < 30 /\ hist.price >= 40
    /\ hist.result.reason = "TAKE_PROFIT"

\* C11: a position whose market is reported closed while its price is strictly
\* between 0.05 and 0.95 is not exited in that cycle, whatever its entry price
\* or unrealized P&L.
C11_ClosedUnsettledNoExit ==
    (/\ hist.op = "check" /\ hist.found /\ hist.closed
     /\ hist.price > resolved_loss_price /\ hist.price < resolved_win_price) =>
        /\ ~hist.result.sell
        /\ positions = hist.pre.positions

\* C17: once update_equity has recorded a peak P > 0 and then an equity E whose
\* drawdown (P - E) / P * 100 equals max_drawdown_pct, should_emergency_stop
\* returns true.
C17_StopAtDrawdownLimit ==
    (/\ peak_equity > 0
     /\ (peak_equity - current_equity) * 100 = config_max_drawdown_pct * peak_equity) =>
        should_emergency_stop(peak_equity, current_equity)

\* C20: when the scan cycle has rejected a candidate market at any stage (stale,
\* inactive, no signal, AI rejection, or the open refused for the position limit,
\* the bankroll or an existing position), the rule-out cache holds at the end of
\* that cycle an entry for the market with the price seen at the decision.  It is
\* stated on the last candidate of the cycle.
C20_RejectionRuledOut ==
    (/\ pc = "cycle" /\ posTodo = <<>> /\ mktTodo = <<>>
     /\ hist.op = "scan"
     /\ hist.outcome \in {"stale", "inactive", "no_signal", "ai_rejected",
                          "max_positions", "bankroll", "existing"}) =>
        /\ ruled_out[hist.market].present
        /\ ruled_out[hist.market].last_price = get_market_price(all_markets[hist.market], "YES")
        /\ ruled_out[hist.market].timestamp = now

\* C12: no market has a position closed and a new position opened within the
\* same scan cycle.
C12_NoExitAndReentry ==
    (hist.op = "scan" /\ hist.outcome = "opened") => hist.market \notin exited

\* C13: in each cycle the exit check of every open position completes before the
\* first entry candidate is evaluated: the agent scans no market while a
\* position is still to be checked, and the orchestrator processes no signal
\* before the cycle's _check_exits has run.
C13_ExitsBeforeEntries ==
    /\ (hist.op = "scan") => posTodo = <<>>
    /\ (hist.op = "signal") => exits_done

C15_CloseCreditsBankroll ==
    [][(\E i \in 1..Len(opositions) :
            opositions[i].status = "open" /\ opositions'[i].status = "closed") =>
           /\ obankroll' > obankroll
           /\ daily_pnl' = daily_pnl]_vars

\* C16: check_trade evaluates (1) size above max_position_usd, (2) size below
\* min_position_usd, (3) open exposure plus size above max_total_exposure_usd,
\* (4) open-position count at max_positions, (5) spread above max_spread_pct,
\* (6) drawdown above max_drawdown_pct, in this order; the reason returned is
\* that of the first check that fails, and the trade is allowed only if none
\* fails.
C16_FirstFailureWins ==
    (hist.op = "check_trade") =>
        LET open == {i \in 1..Len(hist.positions) : hist.positions[i].status = "open"}
            fails == <<hist.size_usd > config_max_position_usd * USD,
                       hist.size_usd < config_min_position_usd * USD,
                       total_exposure(hist.positions) + hist.size_usd
                           > config_max_total_exposure_usd * USD,
                       Cardinality(open) >= config_max_positions,
                       hist.current_spread_pct > config_max_spread_pct,
                       /\ peak_equity > 0
                       /\ (peak_equity - current_equity) * 100
                              > config_max_drawdown_pct * peak_equity>>
            reasons == <<"max_position", "min_position", "exposure", "max_positions",
                         "spread", "drawdown">>
            failing == {k \in 1..6 : fails[k]}
        IN  /\ (hist.result = "passed") <=> (failing = {})
            /\ \A k \in failing :
                   (\A j \in failing : k <= j) => hist.result = reasons[k]

\* C16 witness: the exposure, position-count, spread and drawdown checks all
\* fail for a size within the position limits, and the reason is the exposure
C16_Witness ==
    /\ hist.op = "check_trade"
    /\ hist.size_usd <= config_max_position_usd * USD
    /\ hist.size_usd >= config_min_position_usd * USD
    /\ total_exposure(hist.positions) + hist.size_usd > config_max_total_exposure_usd * USD
    /\ Len(OpenOnes(hist.positions)) >= config_max_positions
    /\ hist.current_spread_pct > config_max_spread_pct
    /\ DrawdownExceeded(peak_equity, current_equity)
    /\ hist.result = "exposure"

\* C18: _process_signal opens no position for a signal whose requested size
\* (position_size) is larger than max_position_usd and max_total_exposure_usd:
\* the trade is rejected and the orchestrator's positions are unchanged.
C18_OversizedSignalRejected ==
    (/\ hist.op = "signal"
     /\ hist.signal.position_size > config_max_position_usd
     /\ hist.signal.position_size > config_max_total_exposure_usd) =>
        /\ hist.outcome # "opened"
        /\ Len(opositions) = Len(hist.pre)

\* C19: when an entry is rejected by a risk or capital check (size outside the
\* limits, exposure overflow, position limit, spread, drawdown, insufficient
\* bankroll), the open positions, the bankroll, the store and the RiskManager's
\* state are exactly as before the attempt and no trade is sent to the executor.
C19_RejectionHasNoEffect ==
    [][/\ (/\ hist'.op = "signal"
           /\ hist'.outcome \in {"max_position", "min_position", "exposure",
                                 "max_positions", "spread", "drawdown"}) =>
              /\ ~hist'.sent
              /\ opositions' = opositions
              /\ obankroll' = obankroll
              /\ peak_equity' = peak_equity
              /\ current_equity' = current_equity
              /\ daily_pnl' = daily_pnl
       /\ (/\ hist'.op = "scan"
           /\ hist'.outcome \in {"max_positions", "bankroll"}) =>
              /\ positions' = positions
              /\ bankroll' = bankroll
              /\ trades' = trades]_vars

\* C19 witness: the orchestrator, with max_positions positions open, has just
\* refused a signal at the position-limit check
C19_Witness ==
    /\ hist.op = "signal" /\ hist.outcome = "max_positions" /\ ~hist.sent
    /\ Len(OpenOnes(opositions)) = config_max_positions
    /\ opositions = hist.pre

\* C21: a rule-out entry counts only while now - entry.timestamp is strictly
\* less than the refresh window: a market whose entry has reached that age is
\* not skipped as cached, it is analyzed again and its entry removed or renewed.
C21_ExpiredEntryNotCached ==
    (/\ hist.op = "scan" /\ hist.entry.present
     /\ now - hist.entry.timestamp >= refresh_interval) =>
        /\ hist.outcome # "cached"
        /\ ruled_out[hist.market] # hist.entry

\* C22: the AI filter is fail-open: when the evaluator is disabled, raises or
\* times out, its verdict is an approval with confidence 0.5, and when it
\* returns an unusable response (here: no "trade" key) the signal still goes
\* to the open step and the market is not ruled out as AI-rejected.
C22_AIFailOpen ==
    /\ \A response \in {"disabled", "error"} :
           evaluate_market(response) = Verdict(TRUE, TRUE, 50)
    /\ (hist.op = "scan" /\ hist.asked /\ ~hist.verdict.has_trade) =>
           /\ hist.outcome # "ai_rejected"
           /\ ~ruled_out[hist.market].present

\* C23: an error raised while one market's snapshot is processed skips only
\* that market: the markets that follow it in the cycle are still evaluated.
C23_ErrorSkipsOneMarket ==
    (hist.op = "scan" /\ hist.outcome = "error") => mktTodo = hist.rest

\* C24: an exception raised inside a cycle never terminates the trading loop.
\* Neither loop leaves its loop positions unless the orchestrator's
\* emergency stop has cleared is_running, and (within the horizon) a cycle
\* that raised is followed by the start of a next cycle.
C24_LoopSurvivesExceptions ==
    /\ [](pc \in {"idle", "cycle"})
    /\ [](opc = "done" => ~is_running)
    /\ [][(is_running /\ ~is_running') => should_emergency_stop(peak_equity, current_equity)]_vars
    /\ (hist.op = "scan" /\ hist.outcome = "error" /\ now + check_interval <= MaxTime)
           ~> (hist.op = "fetch")
    /\ \A k \in 1..(MaxCycles - 1) :
           (hist.op = "signal" /\ hist.outcome = "error" /\ cycles = k) ~> (cycles = k + 1)

\* the agent's first cycle raises at its first market, with markets left
C24_Witness ==
    /\ hist.op = "scan" /\ hist.outcome = "error" /\ hist.rest # <<>>
    /\ now + check_interval <= MaxTime

\* C25: a cycle whose fetch of the market snapshots failed closes and opens no
\* position and leaves bankroll, positions and the stored trades as they
\* were; the loop then sleeps and (within the horizon) starts the next cycle.
C25_FailedFetchChangesNothing ==
    /\ []((hist.op = "fetch" /\ ~hist.ok) =>
              /\ mktTodo = <<>>
              /\ \A m \in Markets : ~all_markets[m].present)
    /\ [][(pc = "cycle" /\ \A m \in Markets : ~all_markets[m].present) =>
              /\ positions' = positions
              /\ bankroll' = bankroll
              /\ trades' = trades]_vars
    /\ (hist.op = "fetch" /\ ~hist.ok /\ now + check_interval <= MaxTime)
           ~> (hist.op = "sleep")
    /\ (hist.op = "sleep") ~> (hist.op = "fetch")

\* the failed fetch's cycle has passed an open position without closing it
C25_Witness ==
    /\ hist.op = "check" /\ ~hist.found /\ positions # <<>>
    /\ pc = "cycle" /\ \A m \in Markets : ~all_markets[m].present

\* C26: for a YES price p at or below longshot_threshold a YES signal with
\* entry p is emitted iff (0.5 - p) / p * 100 >= min_mispricing_pct, and that
\* quotient is the signal's mispricing; for p at or above favorite_threshold
\* the same holds for a NO signal with entry 1 - p; between the thresholds no
\* signal is emitted.  (Prices in cents; the quotient is compared after
\* multiplying by the entry price.)
C26_MispricingRelativeToEntry ==
    (hist.op = "scan" /\ hist.outcome \notin {"cached", "error", "stale", "inactive"}) =>
        LET market == all_markets[hist.market]
            p == market.yes
            s == analyze_market_for_entry(market)
            entry == IF p >= favorite_threshold THEN 100 - p ELSE p
        IN  (~market.closed /\ entry > 0) =>
              /\ (p > longshot_threshold /\ p < favorite_threshold) => ~s.signal
              /\ (p <= longshot_threshold \/ p >= favorite_threshold) =>
                    /\ s.signal <=> (50 - entry) * 100 >= min_mispricing_pct * entry
                    /\ s.signal =>
                          /\ s.side = (IF p <= longshot_threshold THEN "YES" ELSE "NO")
                          /\ s.price = entry
                          /\ s.mispricing_pct * entry = (50 - entry) * 100

\* C27: no entry signal is produced, and no position is opened, for a
\* snapshot whose volume is below the floor, whose YES or NO price is not
\* strictly between 0 and 1, or whose market is closed.
C27_NoSignalForBadSnapshot ==
    (hist.op = "scan" /\ hist.outcome \notin {"cached", "error"}) =>
        LET market == all_markets[hist.market]
        IN  (\/ market.filter = "inactive"
             \/ market.closed
             \/ market.yes <= 0 \/ market.yes >= 100) =>
                /\ ~hist.asked
                /\ hist.outcome # "opened"
                /\ St(positions, bankroll, trades) = hist.pre

\* C28: whatever the signal, the price and the bankroll, the notional a
\* position sizer returns is at least the minimum position and at most the
\* maximum position, hence inside [0, max_position_usd].
C28_SizeWithinLimits ==
    /\ hist.op = "calculate_size" =>
          /\ hist.result >= config_min_position_usd * USD
          /\ hist.result <= config_max_position_usd * USD
    /\ hist.op = "calculate_position_size" =>
          /\ hist.result >= min_size_usd
          /\ hist.result <= max_position_usd

\* a signal without edge at a price inside (0, 1): the Kelly size is 0 and
\* the sizer returns the minimum position
C28_Witness ==
    /\ hist.op = "calculate_size"
    /\ hist.current_price \in 1..99 /\ hist.fair_value = hist.current_price
    /\ hist.bankroll > 0
    /\ hist.result = config_min_position_usd * USD

\* C29: the position sizer returns exactly 0 whenever the full-Kelly fraction
\* f = (b*p - q)/b is not positive, p being the fair value and b the odds
\* (1 - price)/price; f <= 0 exactly when the fair value is not above the price.
C29_ZeroSizeWithoutEdge ==
    (/\ hist.op = "calculate_size"
     /\ hist.current_price \in 1..99
     /\ hist.fair_value <= hist.current_price) => hist.result = 0

\* C30: a YES position entered at 0.10 whose market is, on a later cycle,
\* still open at a YES price of 0.42 is exited at 0.42 by the take-profit rule
\* (P&L +320%), which comes before reversion-complete; the proceeds
\* shares x 0.42 exceed the notional, and when the store write succeeds the
\* position leaves the open set and the bankroll is credited with the proceeds.
C30_ExitAtRevertedPrice ==
    (/\ hist.op = "check" /\ hist.found /\ ~hist.closed
     /\ hist.position.side = "YES" /\ hist.position.entry_price = 10
     /\ hist.price = 42) =>
        LET exit_value == (hist.position.shares * 42) \div 1000
        IN  /\ hist.result = Sell("TAKE_PROFIT", 42)
            /\ exit_value - hist.position.size_usd > 0
            /\ hist.dbOk =>
                  /\ hist.position.market_id \notin MarketIds(positions)
                  /\ Len(positions) = Len(hist.pre.positions) - 1
                  /\ bankroll = hist.pre.bankroll + exit_value
                  /\ trades[hist.position.trade_id].status = "closed"
            /\ ~hist.dbOk => St(positions, bankroll, trades) = hist.pre

\* a position opened in the first cycle (the store held no trade before) is
\* closed at 0.42 in the second
C30_Witness ==
    /\ hist.op = "check" /\ hist.found /\ ~hist.closed /\ hist.dbOk
    /\ hist.position.side = "YES" /\ hist.position.entry_price = 10
    /\ hist.price = 42 /\ now > 0 /\ restarts = 0
    /\ \A i \in 1..Len(trades) : trades[i].model = model_name
    /\ hist.position.market_id \notin MarketIds(positions)

\* C30 as stated: the exit reason of that close is reversion-complete.
C30_AsStated ==
    (/\ hist.op = "check" /\ hist.found /\ ~hist.closed
     /\ hist.position.side = "YES" /\ hist.position.entry_price = 10
     /\ hist.price = 42) =>
        hist.result = Sell("REVERSION", 42)

\* C31: the executor never reports a partial fill.  In dry-run, paper and
\* live mode alike, a successful execute_trade leaves the trade FILLED with
\* filled_size equal to the requested size, and otherwise the trade is not
\* FILLED (and nothing of it is filled).
C31_NoPartialFill ==
    (hist.op = "execute_trade") =>
        /\ hist.result.status # "partial"
        /\ hist.result.success =>
              /\ hist.result.status = "filled"
              /\ hist.result.filled_size = hist.size
        /\ ~hist.result.success =>
              /\ hist.result.status # "filled"
              /\ hist.result.filled_size = 0

\* a paper fill of a whole order of several shares
C31_Witness ==
    /\ hist.op = "execute_trade" /\ config.mode = "paper" /\ ~config.dry_run
    /\ hist.size > 1 /\ hist.result.success /\ hist.result.filled_size = hist.size

\* C32: after any sequence of update_equity calls peak_equity is the largest
\* equity ever passed (0 if none was positive): it starts at 0, each call
\* leaves the larger of the old peak and the equity passed, so it never
\* decreases, and it is never below current_equity.
C32_PeakIsLargestEquity ==
    /\ [](peak_equity >= current_equity /\ peak_equity >= 0)
    /\ [](hist.op = "init" => peak_equity = 0)
    /\ [][/\ peak_equity' >= peak_equity
          /\ current_equity' # current_equity =>
                 peak_equity' = Max(peak_equity, current_equity')]_vars

\* the equity has fallen below an earlier peak, which is kept
C32_Witness ==
    /\ prog = "risk" /\ hist.op = "update_equity"
    /\ peak_equity = 1000 /\ current_equity = 700

\* C33: right after every update_daily_pnl call, daily_pnl is the sum of the
\* pnl values passed since the UTC date last advanced, and daily_start is that
\* date: the first call of a new day drops the previous day's total.
C33_DailyTotalAfterUpdate ==
    (hist.op = "update_daily_pnl") =>
        /\ daily_pnl = hist.passed_today
        /\ daily_start = today

\* the first call on a later day: the total is that call's pnl
C33_Witness ==
    /\ hist.op = "update_daily_pnl" /\ today > 0
    /\ hist.passed_today = hist.pnl /\ daily_pnl = hist.pnl

\* C33 as stated: at every moment daily_pnl is the sum of the pnl values
\* passed since the date last advanced, the total being reset when the date
\* advances.
C33_AsStated ==
    (prog = "daily") => daily_pnl = PassedToday

C36_ClosedOnce ==
    /\ []((hist.op = "check" /\ hist.found /\ hist.result.sell) =>
              hist.pre.trades[hist.position.trade_id].status = "open")
    /\ [][/\ \A i \in 1..Len(trades) :
                 trades[i].status = "closed" =>
                     /\ i <= Len(trades') /\ trades'[i] = trades[i]
                     /\ \A j \in 1..Len(positions') : positions'[j].trade_id # i
          /\ \A i \in 1..Len(opositions) :
                 opositions[i].status = "closed" =>
                     i <= Len(opositions') /\ opositions'[i] = opositions[i]]_vars

\* an exit pass of a later cycle closes a position while the store holds a
\* row this trader closed before
C36_Witness ==
    /\ hist.op = "check" /\ hist.found /\ hist.result.sell /\ hist.dbOk /\ now > 0
    /\ \E i \in 1..Len(trades) :
           /\ i # hist.position.trade_id
           /\ hist.pre.trades[i].status = "closed" /\ trades[i].model = model_name

\* the price of a position has crossed one of its exit levels
Crossed(position) ==
    \/ position.stop_loss # NoLevel /\ position.current_price <= position.stop_loss
    \/ position.take_profit # NoLevel /\ position.current_price >= position.take_profit

\* C37 (as stated): a position opened by _process_signal has a take-profit or
\* stop-loss level for the market price to cross, and once the price of an open
\* position has crossed a level, _check_exits of some later cycle closes it.
C37_AsStated ==
    /\ [](\A i \in 1..Len(opositions) :
              opositions[i].status = "open" =>
                  \/ opositions[i].stop_loss # NoLevel
                  \/ opositions[i].take_profit # NoLevel)
    /\ \A i \in 1..config_max_positions :
           (i <= Len(opositions) /\ opositions[i].status = "open" /\ Crossed(opositions[i]))
               ~> (i <= Len(opositions) /\ opositions[i].status = "closed")

\* the notional committed to a list of open positions of the agent
RECURSIVE Committed(_)
Committed(ps) == IF ps = <<>> THEN 0 ELSE Head(ps).size_usd + Committed(Tail(ps))

\* C38 (as stated): after a restart has reloaded the open positions, the
\* bankroll plus the notional of the reloaded positions is the total the
\* agent had before the restart.
C38_AsStated ==
    hist.op = "restart" =>
        bankroll + Committed(positions) = hist.pre.bankroll + Committed(hist.pre.positions)

C40_RateLimitPerCategory ==
    (prog = "limiter" /\ hist.op = "grant") =>
        /\ hist.previous # NoRequest =>
               hist.at - hist.previous >= min_interval(hist.category)
        /\ hist.at = Max(hist.arrived, hist.previous + min_interval(hist.category))
        /\ last_request[hist.category] = hist.at

\* a caller that queued for the lock of its category is granted exactly
\* min_interval after the previous grant while a caller of another category
\* is asleep holding that category's lock
C40_Witness ==
    /\ prog = "limiter" /\ hist.op = "grant" /\ hist.queued
    /\ hist.at - hist.previous = min_interval(hist.category) /\ hist.at > hist.arrived
    /\ \E d \in Callers :
           callers[d].pc = "sleeping" /\ callers[d].category # hist.category

====
